---- MODULE Spec2Model ----
(***************************************************************************)
(* A model of two components of mockturtle:                                *)
(*   - cell_window (algorithms/cell_window.hpp): windowing in a mapped     *)
(*     network, with its reference counters cell_refs;                     *)
(*   - the index lists of utils/index_list.hpp (abc, xag, mig) with        *)
(*     encode / insert / decode.                                           *)
(***************************************************************************)
EXTENDS Integers, Sequences, FiniteSets, TLC

(***************************************************************************)
(* Bounds of the model                                                     *)
(***************************************************************************)
\* a primary-output reference count of a cell root is drawn from 0..MaxPoRefs
MaxPoRefs == 1
\* number of compute_window_for calls made on one cell_window object
MaxCalls == 2
\* hash-set iteration orders: every permutation of a set of at most MaxPermute
\* nodes; of a larger set the ascending and the descending order
MaxPermute == 3
\* the chain network has max_gates + ChainExtra cell roots
ChainExtra == 2

\* the network handed to encode has at most MaxNetNodes primary inputs and
\* gates, and at most MaxNetPos primary outputs
MaxNetNodes == 3
MaxNetPos == 2
\* a list built through its interface gets at most MaxListOps calls after
\* its construction
MaxListOps == 2

\* _max_gates
max_gates == 128
\* every node index of every network of the model is below NodeLimit
NodeLimit == max_gates + ChainExtra + 2

(***************************************************************************)
(* Helpers on sets and sequences                                           *)
(***************************************************************************)
Range(s) == {s[i] : i \in 1..Len(s)}

Min(S) == CHOOSE x \in S : \A y \in S : x <= y

\* the members of a set of node indices, in ascending order
RECURSIVE SortedSeq(_)
SortedSeq(S) == IF S = {} THEN <<>> ELSE <<Min(S)>> \o SortedSeq(S \ {Min(S)})

\* the same sequence, computed in one pass over the node indices
Ascending(S) == SelectSeq([i \in 1..NodeLimit |-> i - 1], LAMBDA x : x \in S)

Reverse(s) == [i \in 1..Len(s) |-> s[Len(s) + 1 - i]]

RECURSIVE Perms(_)
Perms(S) == IF S = {} THEN {<<>>}
            ELSE UNION {{<<x>> \o p : p \in Perms(S \ {x})} : x \in S}

\* the concatenation of the sequences ss[1], ss[2], ...
MaxLen(ss) ==
  CHOOSE k \in 0..NodeLimit :
    /\ \A i \in 1..Len(ss) : Len(ss[i]) <= k
    /\ k = 0 \/ \E i \in 1..Len(ss) : Len(ss[i]) = k

Flatten(ss) ==
  LET w == MaxLen(ss)
      cell(k) == LET sq == ss[((k - 1) \div w) + 1]
                     j == ((k - 1) % w) + 1
                 IN IF j <= Len(sq) THEN <<sq[j]>> ELSE <<>>
      padded == [k \in 1..(Len(ss) * w) |-> cell(k)]
      kept == SelectSeq(padded, LAMBDA c : c # <<>>)
  IN [k \in 1..Len(kept) |-> kept[k][1]]

\* the orders in which a sparse_hash_set holding S may be iterated
Orders(S) == IF Cardinality(S) <= MaxPermute THEN Perms(S)
             ELSE {Ascending(S), Reverse(Ascending(S))}

(***************************************************************************)
(* uint32_t counters.  A counter is stored as the two's-complement reading *)
(* of its 32 bits (the integers of TLC are 32-bit signed integers):        *)
(* v >= 0 is the unsigned value v, v < 0 is the unsigned value v + 2^32.   *)
(***************************************************************************)
U32Dec(v) == IF v = -2147483647 - 1 THEN 2147483647 ELSE v - 1
U32Inc(v) == IF v = 2147483647 THEN -2147483647 - 1 ELSE v + 1
\* unsigned v >= k, for a small k >= 0
U32Ge(v, k) == v < 0 \/ v >= k

RECURSIVE U32DecN(_, _)
U32DecN(v, k) == IF k = 0 THEN v ELSE U32DecN(U32Dec(v), k - 1)
RECURSIVE U32IncN(_, _)
U32IncN(v, k) == IF k = 0 THEN v ELSE U32IncN(U32Inc(v), k - 1)

(***************************************************************************)
(* The mapped network (the Ntk the window is built on).  Node 0 is the     *)
(* constant, then the primary inputs, then the gates in topological order. *)
(* A network is a record                                                   *)
(*   size   : number of nodes (nodes are 0..size-1)                        *)
(*   pis    : the primary inputs                                           *)
(*   fanin  : node -> set of fanin nodes (empty for PIs and the constant)  *)
(*   root   : the cell roots (is_cell_root)                                *)
(*   cfanin : node -> set of cell-fanins (empty unless a cell root)        *)
(*   po     : node -> number of primary outputs that reference the node    *)
(***************************************************************************)
NtkNodes(net) == 0..(net.size - 1)
is_pi(net, n) == n \in net.pis
is_constant(net, n) == n = 0
is_cell_root(net, n) == n \in net.root
NtkGates(net) == {n \in NtkNodes(net) : n # 0 /\ n \notin net.pis}
\* foreach_fanin / foreach_cell_fanin visit in index order
foreach_fanin(net, n) == SortedSeq(net.fanin[n])
foreach_cell_fanin(net, n) == SortedSeq(net.cfanin[n])

(***************************************************************************)
(* The networks the window builder is run on: every well-formed mapping of *)
(* every network of two primary inputs and three two-input gates, and one  *)
(* long chain of cell roots.                                               *)
(* Well-formed (what a mapping of the network guarantees): the cell-fanins *)
(* of a cell root are primary inputs or other cell roots and are exactly   *)
(* the boundary of the cell's cone; every cell root is referenced by a     *)
(* primary output or by another cell.                                      *)
(***************************************************************************)
SmallPis == {1, 2}
SmallGates == {3, 4, 5}
SmallNodes == {0} \cup SmallPis \cup SmallGates

\* a gate has two distinct fanins among the earlier primary inputs and gates
FaninChoices(g) == {s \in SUBSET (1..(g - 1)) : Cardinality(s) = 2}

RECURSIVE FaninFns(_)
FaninFns(todo) ==
  IF todo = {} THEN {[n \in SmallNodes |-> {}]}
  ELSE LET g == Min(todo)
       IN {[f EXCEPT ![g] = s] : f \in FaninFns(todo \ {g}), s \in FaninChoices(g)}

\* the gates reached from the nodes of todo without entering C
RECURSIVE Cone(_, _, _, _, _)
Cone(fanin, pis, C, todo, acc) ==
  IF todo = {} THEN acc
  ELSE LET n == CHOOSE x \in todo : TRUE
           skip == n \in acc \/ n \in C \/ n = 0 \/ n \in pis
       IN IF skip THEN Cone(fanin, pis, C, todo \ {n}, acc)
          ELSE Cone(fanin, pis, C, (todo \ {n}) \cup fanin[n], acc \cup {n})

IsCut(fanin, pis, R, r, C) ==
  /\ C # {}
  /\ C \subseteq (pis \cup R) \ {r}
  /\ LET cone == Cone(fanin, pis, C, {r}, {})
     IN (UNION {fanin[g] : g \in cone}) \ (cone \cup {0}) = C

CutChoices(fanin, R, r) ==
  {C \in SUBSET (1..(r - 1)) : IsCut(fanin, SmallPis, R, r, C)}

RECURSIVE CfaninFns(_, _, _)
CfaninFns(fanin, R, todo) ==
  IF todo = {} THEN {[n \in SmallNodes |-> {}]}
  ELSE LET r == Min(todo)
       IN {[f EXCEPT ![r] = C] : f \in CfaninFns(fanin, R, todo \ {r}),
                                 C \in CutChoices(fanin, R, r)}

RECURSIVE PoFns(_)
PoFns(todo) ==
  IF todo = {} THEN {[n \in SmallNodes |-> 0]}
  ELSE LET r == Min(todo)
       IN {[f EXCEPT ![r] = k] : f \in PoFns(todo \ {r}), k \in 0..MaxPoRefs}

Referenced(net) ==
  \A r \in net.root : net.po[r] > 0 \/ \E q \in net.root : r \in net.cfanin[q]

SmallNetworks ==
  {net \in UNION {UNION {{[size |-> Cardinality(SmallNodes), pis |-> SmallPis,
                           fanin |-> fi, root |-> R, cfanin |-> cf, po |-> po]
                          : cf \in CfaninFns(fi, R, R), po \in PoFns(R)}
                         : R \in (SUBSET SmallGates) \ {{}}}
                  : fi \in FaninFns(SmallGates)}
     : Referenced(net)}

\* a chain of cell roots 2, 3, ..., each a one-input gate whose only fanin
\* and only cell-fanin is its predecessor (node 1 is the primary input);
\* the last one drives the primary output
ChainLen == max_gates + ChainExtra
ChainNetwork ==
  [size |-> ChainLen + 2, pis |-> {1},
   fanin |-> [n \in 0..(ChainLen + 1) |-> IF n >= 2 THEN {n - 1} ELSE {}],
   root |-> 2..(ChainLen + 1),
   cfanin |-> [n \in 0..(ChainLen + 1) |-> IF n >= 2 THEN {n - 1} ELSE {}],
   po |-> [n \in 0..(ChainLen + 1) |-> IF n = ChainLen + 1 THEN 1 ELSE 0]]

Networks == SmallNetworks \cup {ChainNetwork}

(***************************************************************************)
(* cell_window: construction                                               *)
(***************************************************************************)
NoNode == -1

\* _cell_refs after init_cell_refs: one per cell root that lists the node as
\* a cell-fanin, plus one per primary output that references it
init_cell_refs(net) ==
  [n \in NtkNodes(net) |->
     Cardinality({r \in net.root : n \in net.cfanin[r]}) + net.po[n]]

\* _cell_parents after init_cell_refs: foreach_gate visits in index order
init_cell_parents(net) ==
  [n \in NtkNodes(net) |-> SortedSeq({r \in net.root : n \in net.cfanin[r]})]

(***************************************************************************)
(* cell_window: MFFC collection.  The traversal-id marks of one traversal  *)
(* are the set visited (incr_trav_id makes every earlier mark stale).      *)
(***************************************************************************)
RECURSIVE collect_gates_rec(_, _, _)
RECURSIVE collect_fanins(_, _, _)
collect_gates_rec(net, n, st) ==
  IF n \in st.visited THEN st
  ELSE IF is_constant(net, n) \/ is_pi(net, n) THEN st
  ELSE LET st1 == [st EXCEPT !.visited = @ \cup {n}]
           st2 == collect_fanins(net, foreach_fanin(net, n), st1)
       IN [st2 EXCEPT !.gates = Append(@, n)]
collect_fanins(net, fs, st) ==
  IF fs = <<>> THEN st
  ELSE collect_fanins(net, Tail(fs), collect_gates_rec(net, Head(fs), st))

\* collect_gates without the marking of the cell-fanins of the pivot
collect_gates_NoFrontier(net, p) ==
  collect_gates_rec(net, p, [visited |-> {0}, gates |-> <<>>]).gates

collect_gates(net, p) ==
  collect_gates_rec(net, p,
      [visited |-> {0} \cup net.cfanin[p], gates |-> <<>>]).gates

collect_mffc(net, p, curgates) ==
  SelectSeq(collect_gates(net, p), LAMBDA g : g \notin curgates)

(***************************************************************************)
(* cell_window: find_next_pivot                                            *)
(***************************************************************************)
\* the loops "for n in _nodes: foreach_cell_fanin(n): _cell_refs[n2]--": one
\* decrement of _cell_refs[m] per node of ns that has m as a cell-fanin
DerefNodes(net, refs, ns) ==
  [m \in DOMAIN refs |->
     U32DecN(refs[m], Cardinality({n \in ns : m \in net.cfanin[n]}))]

\* the loop "for n in _nodes: foreach_cell_fanin(n): _cell_refs[n2]++"
RerefNodes(net, refs, ns) ==
  [m \in DOMAIN refs |->
     U32IncN(refs[m], Cardinality({n \in ns : m \in net.cfanin[n]}))]

\* what the loop that closes find_next_pivot (lines 294-300) does to _cell_refs
SecondDeref(net, refs, ns) == DerefNodes(net, refs, ns)

\* max_element_unary: the first element of cands with the largest fn value
\* (fn gives the value of every candidate)
FirstMax(cands, fn) ==
  LET best == CHOOSE i \in 1..Len(cands) :
                /\ \A j \in 1..Len(cands) : fn[cands[j]] <= fn[cands[i]]
                /\ \A j \in 1..(i - 1) : fn[cands[j]] < fn[cands[i]]
  IN cands[best]

\* candidates pushed by the cell-fanin loops (lines 221-230 and 248-257)
\* InputsPerNode without the test !_ntk.is_pi( n2 )
InputsPerNode_WithPis(net, refs, ns, ord, deadOnly) ==
  [i \in 1..Len(ord) |->
     SelectSeq(foreach_cell_fanin(net, ord[i]),
               LAMBDA n2 : /\ n2 \notin ns
                           /\ (deadOnly => refs[n2] = 0))]

\* InputsPerNode without the test !_nodes.count( n2 )
InputsPerNode_WithWindow(net, refs, ns, ord, deadOnly) ==
  [i \in 1..Len(ord) |->
     SelectSeq(foreach_cell_fanin(net, ord[i]),
               LAMBDA n2 : /\ ~is_pi(net, n2)
                           /\ (deadOnly => refs[n2] = 0))]

\* what one pass over _nodes appends to candidates: per_node[i] is what the
\* i-th node of the iteration order appends
InputsPerNode(net, refs, ns, ord, deadOnly) ==
  [i \in 1..Len(ord) |->
     SelectSeq(foreach_cell_fanin(net, ord[i]),
               LAMBDA n2 : /\ n2 \notin ns
                           /\ ~is_pi(net, n2)
                           /\ (deadOnly => refs[n2] = 0))]

InputCandidates(net, refs, ns, ord, deadOnly) ==
  Flatten(InputsPerNode(net, refs, ns, ord, deadOnly))

\* the parent loop (lines 259-276).  A node is passed over when its counter
\* is 0 or at least 5; the first node with counter 1 and a single parent
\* outside the window ends the loop (break) with that parent as the only
\* candidate; every other node appends its parents outside the window.
ParentSkipped(refs, n) == refs[n] = 0 \/ U32Ge(refs[n], 5)

ParentBreaks(refs, parents, ns, n) ==
  /\ ~ParentSkipped(refs, n)
  /\ refs[n] = 1 /\ Len(parents[n]) = 1 /\ parents[n][1] \notin ns

ParentCandidates(refs, parents, ns, ord, cands) ==
  LET brk == {i \in 1..Len(ord) : ParentBreaks(refs, parents, ns, ord[i])}
  IN IF brk # {} THEN <<parents[ord[Min(brk)]][1]>>
     ELSE cands \o Flatten([i \in 1..Len(ord) |->
                   IF ParentSkipped(refs, ord[i]) THEN <<>>
                   ELSE SelectSeq(parents[ord[i]], LAMBDA g : g \notin ns)])

\* the candidate find_next_pivot returns (NoNode for std::nullopt), _nodes
\* being iterated in the order ord; refs are the counters after the first deref
NextPivot(net, refs, parents, ns, ord) ==
  LET dead == InputCandidates(net, refs, ns, ord, TRUE)
      ext == InputCandidates(net, refs, ns, ord, FALSE)
      all == ParentCandidates(refs, parents, ns, ord, ext)
      cntDead == [c \in Range(dead) |-> Cardinality(net.cfanin[c] \cap Range(dead))]
      cntExt == [c \in Range(all) |-> Cardinality(net.cfanin[c] \cap Range(ext))]
  IN IF dead # <<>> THEN FirstMax(dead, cntDead)
     ELSE IF all # <<>> THEN FirstMax(all, cntExt)
     ELSE NoNode

find_next_pivot(net, refs, parents, ns, ord) ==
  LET refs1 == DerefNodes(net, refs, ns)
  IN [next |-> NextPivot(net, refs1, parents, ns, ord),
      refs |-> SecondDeref(net, refs1, ns)]

\* ExceedsMax without the gates to add
ExceedsMax_IgnoresNew(cur, new) == cur > max_gates

\* the test of line 105: cur gates in the window, new gates to add
ExceedsMax(cur, new) == cur + new > max_gates

(***************************************************************************)
(* cell_window: find_leaves_and_roots                                      *)
(***************************************************************************)
\* FindLeaves without _leaves.clear()
FindLeaves_NoClear(net, gs, old) ==
  old \cup {child \in UNION {net.fanin[g] : g \in gs} : child \notin gs}

\* _leaves.clear() and the loop of lines 315-324; old is _leaves on entry
FindLeaves(net, gs, old) ==
  {child \in UNION {net.fanin[g] : g \in gs} : child \notin gs}

\* lines 326-339: deref, then the nodes whose counter is not zero
FindRoots(net, refs, ns) ==
  LET refs1 == DerefNodes(net, refs, ns)
  IN {n \in ns : refs1[n] # 0}

\* _cell_refs after the deref of lines 327-332 and the reref of lines 340-345
LeavesAndRootsRefs(net, refs, ns) ==
  RerefNodes(net, DerefNodes(net, refs, ns), ns)


(***************************************************************************)
(* Index lists (utils/index_list.hpp).  A list is a record: values is the  *)
(* vector values; an abc list also has the counters _num_pis and _num_pos. *)
(* Literals are 2 * index + complement.                                    *)
(***************************************************************************)
Variants == {"abc", "xag", "mig"}

\* the constructors with num_pis = 0
abc_new == [kind |-> "abc", values |-> <<0, 1>>, num_pis |-> 0, num_pos |-> 0]
xag_new == [kind |-> "xag", values |-> <<0>>]
mig_new == [kind |-> "mig", values |-> <<0>>]
il_new(v) == CASE v = "abc" -> abc_new [] v = "xag" -> xag_new [] v = "mig" -> mig_new

\* the constructors with an input count n
il_construct(v, n) ==
  CASE v = "abc" -> IF n > 0
                    THEN [abc_new EXCEPT !.num_pis = @ + n,
                                         !.values = @ \o [k \in 1..(2 * n) |-> 0]]
                    ELSE abc_new
    [] v = "xag" -> [kind |-> "xag", values |-> <<n>>]
    [] v = "mig" -> [kind |-> "mig", values |-> <<n>>]

\* values.at( 0 ) of a packed list is the first element of the sequence
Header(il) == il.values[1]

il_num_pis(il) == IF il.kind = "abc" THEN il.num_pis ELSE Header(il) % 256
il_num_pos(il) == IF il.kind = "abc" THEN il.num_pos ELSE (Header(il) \div 256) % 256
il_num_gates(il) ==
  IF il.kind = "abc"
  THEN (Len(il.values) - ((1 + il.num_pis + il.num_pos) * 2)) \div 2
  ELSE Header(il) \div 65536
il_size(il) == Len(il.values)

\* the assertions of the packed lists on the header fields
add_inputs_pre(il, n) == il.kind # "abc" => il_num_pis(il) + n <= 255
add_gate_pre(il) == il.kind # "abc" => il_num_gates(il) + 1 <= 65535
add_output_pre(il) == il.kind # "abc" => il_num_pos(il) + 1 <= 255

\* n copies of the pair 0, 0
RECURSIVE ZeroPairs(_)
ZeroPairs(n) == IF n = 0 THEN <<>> ELSE <<0, 0>> \o ZeroPairs(n - 1)

add_inputs(il, n) ==
  IF il.kind = "abc"
  THEN [il EXCEPT !.num_pis = @ + n, !.values = @ \o ZeroPairs(n)]
  ELSE [il EXCEPT !.values[1] = @ + n]

\* values.at( 0 ) = ( ( num_gates() + 1 ) << 16 ) | ( values.at( 0 ) & 0xffff )
HeaderWithGate(h) == ((h \div 65536) + 1) * 65536 + (h % 65536)
\* values.at( 0 ) = ( num_pos() + 1 ) << 8 | ( values.at( 0 ) & 0xffff00ff )
HeaderWithOutput(h) ==
  ((((h \div 256) % 256) + 1) * 256) + ((h \div 65536) * 65536) + (h % 256)

\* add_and and add_xor append the pair; only the abc list asserts the order
abc_add_and_pre(lit0, lit1) == lit0 < lit1
abc_add_xor_pre(lit0, lit1) == lit0 > lit1

add_gate2(il, lit0, lit1) ==
  IF il.kind = "abc"
  THEN [il EXCEPT !.values = @ \o <<lit0, lit1>>]
  ELSE [il EXCEPT !.values = <<HeaderWithGate(Head(@))>> \o Tail(@) \o <<lit0, lit1>>]

add_maj(il, lit0, lit1, lit2) ==
  [il EXCEPT !.values = <<HeaderWithGate(Head(@))>> \o Tail(@) \o <<lit0, lit1, lit2>>]

add_output(il, lit) ==
  IF il.kind = "abc"
  THEN [il EXCEPT !.num_pos = @ + 1, !.values = @ \o <<lit, lit>>]
  ELSE [il EXCEPT !.values = <<HeaderWithOutput(Head(@))>> \o Tail(@) \o <<lit>>]

\* foreach_entry: the gate entries, in order (0-based positions i of the code
\* are the 1-based positions i + 1 here)
EntryWidth(il) == IF il.kind = "mig" THEN 3 ELSE 2
EntryFirst(il) == IF il.kind = "abc" THEN (1 + il.num_pis) * 2 ELSE 1
EntryLimit(il) ==
  IF il.kind = "abc" THEN Len(il.values) - (il.num_pos * 2)
  ELSE Len(il.values) - il_num_pos(il)

RECURSIVE EntriesFrom(_, _)
EntriesFrom(il, i) ==
  IF i >= EntryLimit(il) THEN <<>>
  ELSE <<[k \in 1..EntryWidth(il) |-> il.values[i + k]]>>
       \o EntriesFrom(il, i + EntryWidth(il))
foreach_entry(il) == EntriesFrom(il, EntryFirst(il))

\* foreach_po: values.at( i ) for i from size - num_pos up to size - 1
foreach_po(il) ==
  [k \in 1..il_num_pos(il) |-> il.values[Len(il.values) - il_num_pos(il) + k]]

\* abc_index_list( values ): the counters the scan of the pairs after the
\* constant prefix finds, and whether its assertion fails; pair k (from 1) is
\* values.at( 2k ), values.at( 2k + 1 )
RawPairs(values) == (Len(values) - 2) \div 2
RawPairIsZero(values, k) == values[(2 * k) + 1] = 0 /\ values[(2 * k) + 2] = 0
RawPairIsEqual(values, k) == values[(2 * k) + 1] = values[(2 * k) + 2]
RawLeading(values) ==
  Cardinality({k \in 1..RawPairs(values) :
                 \A j \in 1..k : RawPairIsZero(values, j)})
abc_from_raw_fatal(values) ==
  \E k \in (RawLeading(values) + 1)..RawPairs(values) : RawPairIsZero(values, k)
abc_from_raw(values) ==
  [kind |-> "abc", values |-> values,
   num_pis |-> RawLeading(values),
   num_pos |-> Cardinality({k \in (RawLeading(values) + 1)..RawPairs(values) :
                              RawPairIsEqual(values, k)})]

(***************************************************************************)
(* The logic network of the codec.  nodes[i] is the node of index i (index *)
(* 0 is the constant): a primary input or a gate with its fanin signals; a *)
(* signal is a node index with a complement bit.  pos are the primary      *)
(* output signals.  Gates are created by appending (no structural hashing).*)
(***************************************************************************)
\* log is the sequence of the mutating calls made on the network
EmptyNetwork == [nodes |-> <<>>, pos |-> <<>>, log |-> <<>>]

Signal(i, c) == [node |-> i, c |-> c]
create_not(sg) == [sg EXCEPT !.c = 1 - @]
get_constant == Signal(0, 0)

node_to_index(i) == i
NetPis(net) == SelectSeq([i \in 1..Len(net.nodes) |-> i],
                         LAMBDA i : net.nodes[i].kind = "pi")
NetGates(net) == SelectSeq([i \in 1..Len(net.nodes) |-> i],
                           LAMBDA i : net.nodes[i].kind # "pi")
net_num_pis(net) == Len(NetPis(net))
net_num_gates(net) == Len(NetGates(net))
net_num_pos(net) == Len(net.pos)

create_pi(net) ==
  [net EXCEPT !.nodes = Append(@, [kind |-> "pi", fi |-> <<>>]),
              !.log = Append(@, [op |-> "pi", args |-> <<>>])]
create_gate(net, kind, fi) ==
  [net EXCEPT !.nodes = Append(@, [kind |-> kind, fi |-> fi]),
              !.log = Append(@, [op |-> kind, args |-> fi])]
create_po(net, sg) ==
  [net EXCEPT !.pos = Append(@, sg),
              !.log = Append(@, [op |-> "po", args |-> <<sg>>])]
\* fanin number j of the gate g redirected to the signal sg
replace_in_node(net, g, j, sg) ==
  [net EXCEPT !.nodes[g].fi[j] = sg,
              !.log = Append(@, [op |-> "replace", args |-> <<sg>>])]
\* the signal of the node created last
LastSignal(net) == Signal(Len(net.nodes), 0)

\* the literal encode computes for a signal
SignalLit(sg) == (2 * node_to_index(sg.node)) + sg.c

(***************************************************************************)
(* encode                                                                  *)
(***************************************************************************)
\* foreach_pi: PI number k (from 0) must have index k + 1
PisNormalized(net) ==
  \A k \in 1..net_num_pis(net) : node_to_index(NetPis(net)[k]) = k

\* the checks made on gate number k (from 1) in foreach_gate
GateNormalized(net, k) ==
  node_to_index(NetGates(net)[k]) = net_num_pis(net) + k
GateTopological(net, k) ==
  \A j \in 1..Len(net.nodes[NetGates(net)[k]].fi) :
     ~(node_to_index(net.nodes[NetGates(net)[k]].fi[j].node)
         > node_to_index(NetGates(net)[k]))
GateKindOk(v, net, k) ==
  IF v = "mig" THEN net.nodes[NetGates(net)[k]].kind = "maj"
  ELSE net.nodes[NetGates(net)[k]].kind \in {"and", "xor"}
GateAddOk(v, net, k) ==
  LET nd == net.nodes[NetGates(net)[k]]
      l0 == SignalLit(nd.fi[1])
      l1 == SignalLit(nd.fi[2])
  IN v = "abc" => IF nd.kind = "and" THEN abc_add_and_pre(l0, l1)
                  ELSE abc_add_xor_pre(l0, l1)

\* the list after the gates k, k + 1, ... have been added
RECURSIVE EncodeGates(_, _, _)
EncodeGates(il, net, k) ==
  IF k > net_num_gates(net) THEN il
  ELSE LET nd == net.nodes[NetGates(net)[k]]
           lits == [j \in 1..Len(nd.fi) |-> SignalLit(nd.fi[j])]
       IN EncodeGates(IF il.kind = "mig" THEN add_maj(il, lits[1], lits[2], lits[3])
                      ELSE add_gate2(il, lits[1], lits[2]),
                      net, k + 1)

RECURSIVE EncodeOutputs(_, _, _)
EncodeOutputs(il, net, k) ==
  IF k > net_num_pos(net) THEN il
  ELSE EncodeOutputs(add_output(il, SignalLit(net.pos[k])), net, k + 1)

\* encode ends in std::abort or in a failed assertion
EncodeFatal(v, net) ==
  \/ ~PisNormalized(net)
  \/ \E k \in 1..net_num_gates(net) :
       \/ ~GateKindOk(v, net, k)
       \/ ~GateNormalized(net, k)
       \/ ~GateTopological(net, k)
       \/ ~GateAddOk(v, net, k)

\* the list encode leaves in indices, a list fresh from il_new
encode(il, net) ==
  EncodeOutputs(EncodeGates(add_inputs(il, net_num_pis(net)), net, 1), net, 1)

(***************************************************************************)
(* insert and decode                                                       *)
(***************************************************************************)
\* the signal a literal stands for, signals being the table of insert
LitSignal(signals, lit) ==
  IF lit % 2 = 1 THEN create_not(signals[(lit \div 2) + 1])
  ELSE signals[(lit \div 2) + 1]

\* the gate an entry creates if insert called create_and for every entry of
\* an abc or xag list
EntryKind_AlwaysAnd(il, e) ==
  IF il.kind = "mig" THEN "maj" ELSE "and"

\* the gate an entry creates
EntryKind(il, e) ==
  IF il.kind = "mig" THEN "maj"
  ELSE IF il.kind = "abc" THEN (IF e[1] < e[2] THEN "and" ELSE "xor")
  ELSE (IF e[1] > e[2] THEN "xor" ELSE "and")

\* insert of an abc or xag list ends in the failed assertion lit0 != lit1
InsertFatal(il) ==
  /\ il.kind # "mig"
  /\ \E k \in 1..Len(foreach_entry(il)) :
       foreach_entry(il)[k][1] = foreach_entry(il)[k][2]

\* the assertion of foreach_entry on the size; the difference is computed in
\* uint64_t, so below zero it wraps around (2^64 is 0 mod 2 and 1 mod 3)
EntriesAssertOk(il) ==
  LET d == Len(il.values) - 1 - il_num_pos(il)
  IN CASE il.kind = "abc" -> Len(il.values) % 2 = 0
       [] il.kind = "xag" -> d % 2 = 0
       [] il.kind = "mig" -> IF d >= 0 THEN d % 3 = 0 ELSE (d + 1) % 3 = 0

\* signals.at( lit >> 1 ) throws: entry k (from 1) finds a table of n inputs,
\* the constant and k - 1 gates; the outputs find all gates
InsertOutOfRange(il, n) ==
  LET es == foreach_entry(il)
      os == foreach_po(il)
  IN \/ \E k \in 1..Len(es) : \E j \in 1..Len(es[k]) : es[k][j] \div 2 > n + (k - 1)
     \/ \E k \in 1..Len(os) : os[k] \div 2 > n + Len(es)

\* decode( ntk, il ) does not return
DecodeFatal(il) ==
  \/ ~EntriesAssertOk(il)
  \/ InsertFatal(il)
  \/ InsertOutOfRange(il, il_num_pis(il))

\* st = [net, signals]: the host network and the table, entries es to go
RECURSIVE InsertEntries(_, _, _)
InsertEntries(il, es, st) ==
  IF es = <<>> THEN st
  ELSE LET e == Head(es)
           fi == [j \in 1..Len(e) |-> LitSignal(st.signals, e[j])]
           net1 == create_gate(st.net, EntryKind(il, e), fi)
       IN InsertEntries(il, Tail(es),
             [net |-> net1, signals |-> Append(st.signals, LastSignal(net1))])

\* insert: the network after the gates are created, and the signals handed
\* to the callback fn, in order
insert(net, inputs, il) ==
  LET st == InsertEntries(il, foreach_entry(il),
                          [net |-> net, signals |-> <<get_constant>> \o inputs])
      lits == foreach_po(il)
  IN [net |-> st.net,
      outs |-> [k \in 1..Len(lits) |-> LitSignal(st.signals, lits[k])]]

\* n calls of create_pi
CreatePis(net, n) ==
  [net EXCEPT !.nodes = @ \o [k \in 1..n |-> [kind |-> "pi", fi |-> <<>>]],
              !.log = @ \o [k \in 1..n |-> [op |-> "pi", args |-> <<>>]]]

RECURSIVE CreatePos(_, _)
CreatePos(net, outs) ==
  IF outs = <<>> THEN net ELSE CreatePos(create_po(net, Head(outs)), Tail(outs))

\* decode handing insert the signals of inputs it did not create
decode_NoPis(net, il) ==
  LET n == il_num_pis(il)
      inputs == [k \in 1..n |-> Signal(Len(net.nodes) + k, 0)]
      r == insert(net, inputs, il)
  IN CreatePos(r.net, r.outs)

decode(net, il) ==
  LET n == il_num_pis(il)
      net1 == CreatePis(net, n)
      inputs == [k \in 1..n |-> Signal(Len(net.nodes) + k, 0)]
      r == insert(net1, inputs, il)
  IN CreatePos(r.net, r.outs)

(***************************************************************************)
(* Simulation: the value of every node under an assignment a of the        *)
(* primary inputs (a[k] is the value of the k-th primary input)            *)
(***************************************************************************)
Assignments(n) == [1..n -> BOOLEAN]

PiOrdinal(net, i) == Cardinality({j \in 1..i : net.nodes[j].kind = "pi"})

RECURSIVE NodeValue(_, _, _)
SignalValue(net, sg, a) == NodeValue(net, sg.node, a) # (sg.c = 1)
NodeValue(net, i, a) ==
  IF i = 0 THEN FALSE
  ELSE LET nd == net.nodes[i]
       IN CASE nd.kind = "pi" -> a[PiOrdinal(net, i)]
            [] nd.kind = "and" -> SignalValue(net, nd.fi[1], a) /\ SignalValue(net, nd.fi[2], a)
            [] nd.kind = "xor" -> SignalValue(net, nd.fi[1], a) # SignalValue(net, nd.fi[2], a)
            [] nd.kind = "maj" ->
                 Cardinality({j \in 1..3 : SignalValue(net, nd.fi[j], a)}) >= 2

\* the Boolean function of the k-th primary output
OutputFunction(net, k) ==
  [a \in Assignments(net_num_pis(net)) |-> SignalValue(net, net.pos[k], a)]

(***************************************************************************)
(* State of a cell_window object and of the call in progress               *)
(***************************************************************************)
VARIABLES
  ntk,           \* the network the window is built on
  cell_refs,     \* _cell_refs
  cell_parents,  \* _cell_parents
  nodes,         \* _nodes
  gates,         \* _gates
  leaves,        \* _leaves
  roots,         \* _roots
  pc,            \* "idle", or the place compute_window_for has reached
  pivot,         \* the pivot of the current (or last) call
  calls,         \* number of completed compute_window_for calls
  next,          \* the local next: the last result of find_next_pivot
  mffc,          \* the local vector gates: the last result of collect_mffc
  iters,         \* iterations of the growth loop begun in the current call
  capped,        \* the growth loop of the call was ended by the break of line 107
  first,         \* the window computed by the first call on this object
  variant,       \* the index-list variant of the round trip: "abc", "xag", "mig"
  src,           \* the network handed to encode
  indices,       \* the list encode( indices, src ) filled
  dst,           \* the network decode( dst, indices ) filled
  indices2,      \* the list encode( indices2, dst ) filled
  cpc,           \* the place the round trip has reached
  api            \* the calls made on the list indices since its construction

wvars == <<ntk, cell_refs, cell_parents, nodes, gates, leaves, roots, pc, pivot,
           calls, next, mffc, iters, capped, first>>
cvars == <<variant, src, indices, dst, indices2, cpc, api>>
vars == <<wvars, cvars>>

Window == [pivot |-> pivot, nodes |-> nodes, gates |-> gates,
           leaves |-> leaves, roots |-> roots]

\* the constructor
WInit ==
  /\ ntk \in Networks
  /\ cell_refs = init_cell_refs(ntk)
  /\ cell_parents = init_cell_parents(ntk)
  /\ nodes = {} /\ gates = {} /\ leaves = {} /\ roots = {}
  /\ pc = "idle" /\ pivot = NoNode /\ calls = 0 /\ capped = FALSE
  /\ next = NoNode /\ mffc = <<>> /\ iters = 0
  /\ first = [pivot |-> NoNode, nodes |-> {}, gates |-> {}, leaves |-> {},
              roots |-> {}]

\* the pivots compute_window_for is called with: every cell root of a small
\* network; of the chain its two ends
PivotChoices(net) ==
  IF net.root \subseteq SmallGates THEN net.root
  ELSE {Min(net.root), Min(net.root) + Cardinality(net.root) - 1}

\* compute_window_for, lines 80-97: reset, collect the pivot's MFFC, add it
ComputeWindowStart ==
  /\ pc = "idle" /\ calls < MaxCalls
  /\ \E p \in PivotChoices(ntk) :
       LET g == collect_mffc(ntk, p, {})
       IN /\ is_cell_root(ntk, p)
          /\ Len(g) <= max_gates
          /\ nodes' = {p}
          /\ gates' = Range(g)
          /\ pivot' = p
          /\ mffc' = g
  /\ pc' = "grow" /\ capped' = FALSE /\ next' = NoNode /\ iters' = 0
  /\ UNCHANGED <<ntk, cell_refs, cell_parents, leaves, roots, calls, first>>
  /\ UNCHANGED cvars

\* one iteration of the loop of lines 100-110: find_next_pivot, then either
\* the end of the loop (no candidate, or a candidate whose new gates do not
\* fit) or add_node
Grow ==
  /\ pc = "grow"
  /\ \E ord \in Orders(nodes) :
       LET r == find_next_pivot(ntk, cell_refs, cell_parents, nodes, ord)
           g == collect_mffc(ntk, r.next, gates)
       IN /\ cell_refs' = r.refs
          /\ next' = r.next
          /\ IF r.next = NoNode
             THEN /\ pc' = "finish"
                  /\ UNCHANGED <<mffc, nodes, gates, capped>>
             ELSE IF ExceedsMax(Cardinality(gates), Len(g))
             THEN /\ pc' = "finish" /\ capped' = TRUE /\ mffc' = g
                  /\ UNCHANGED <<nodes, gates>>
             ELSE /\ pc' = "grow" /\ mffc' = g
                  /\ nodes' = nodes \cup {r.next}
                  /\ gates' = gates \cup Range(g)
                  /\ UNCHANGED capped
  /\ iters' = iters + 1
  /\ UNCHANGED <<ntk, cell_parents, leaves, roots, pivot, calls, first>>
  /\ UNCHANGED cvars

\* find_leaves_and_roots (line 112) and the return of compute_window_for
FindLeavesAndRoots ==
  /\ pc = "finish"
  /\ leaves' = FindLeaves(ntk, gates, leaves)
  /\ roots' = FindRoots(ntk, cell_refs, nodes)
  /\ cell_refs' = LeavesAndRootsRefs(ntk, cell_refs, nodes)
  /\ pc' = "idle" /\ calls' = calls + 1
  /\ first' = IF calls = 0 THEN [Window EXCEPT !.leaves = leaves', !.roots = roots']
              ELSE first
  /\ UNCHANGED <<ntk, cell_parents, nodes, gates, pivot, next, mffc, iters, capped>>
  /\ UNCHANGED cvars

(***************************************************************************)
(* The round trip of a network through an index list: a network is built,  *)
(* encoded, the list decoded into an empty network, and that network       *)
(* encoded into a fresh list                                               *)
(***************************************************************************)
\* api after the construction of a list with n inputs: pis is the number of
\* inputs asked for so far, gates and outs are the successful gate and output
\* additions in order, ops counts the calls, fatal is the call that failed,
\* mixed tells that an input or a gate was added after an output
NoCalls(n) == [pis |-> n, gates |-> <<>>, outs |-> <<>>, ops |-> 0,
               fatal |-> <<>>, mixed |-> FALSE]

\* no round trip: the state of the codec variables while the window builder runs
CNone ==
  /\ variant = "abc" /\ src = EmptyNetwork /\ dst = EmptyNetwork
  /\ indices = abc_new /\ indices2 = abc_new /\ cpc = "none"
  /\ api = NoCalls(0)

CInit ==
  /\ variant \in Variants
  /\ src = EmptyNetwork /\ dst = EmptyNetwork
  /\ indices = il_new(variant) /\ indices2 = il_new(variant)
  /\ cpc = "build"
  /\ api = NoCalls(0)

\* the signals of net: of the constant and of the nodes created so far, plain
\* or complemented
NetSignals(net) == {Signal(i, c) : i \in 0..Len(net.nodes), c \in {0, 1}}

\* the fanins a network stores for a new gate: distinct nodes; of an AND in
\* ascending order, of an XOR in descending order, neither with a constant
\* fanin; of a MAJ in ascending order
GateFanins(net, kind) ==
  CASE kind = "and" ->
         {fi \in {<<a, b>> : a, b \in NetSignals(net)} :
            0 < fi[1].node /\ fi[1].node < fi[2].node}
    [] kind = "xor" ->
         {fi \in {<<a, b>> : a, b \in NetSignals(net)} :
            fi[1].node > fi[2].node /\ fi[2].node > 0}
    [] kind = "maj" ->
         {fi \in {<<a, b, c>> : a, b, c \in NetSignals(net)} :
            fi[1].node < fi[2].node /\ fi[2].node < fi[3].node}

GateKinds(v) == IF v = "mig" THEN {"maj"} ELSE {"and", "xor"}

CreatePi ==
  /\ cpc = "build" /\ Len(src.nodes) < MaxNetNodes /\ src.pos = <<>>
  /\ src' = create_pi(src)
  /\ UNCHANGED <<variant, indices, dst, indices2, cpc, api>>
  /\ UNCHANGED wvars

CreateGate ==
  /\ cpc = "build" /\ Len(src.nodes) < MaxNetNodes /\ src.pos = <<>>
  /\ \E kind \in GateKinds(variant) : \E fi \in GateFanins(src, kind) :
       src' = create_gate(src, kind, fi)
  /\ UNCHANGED <<variant, indices, dst, indices2, cpc, api>>
  /\ UNCHANGED wvars

CreatePo ==
  /\ cpc = "build" /\ Len(src.pos) < MaxNetPos
  /\ \E sg \in NetSignals(src) : src' = create_po(src, sg)
  /\ UNCHANGED <<variant, indices, dst, indices2, cpc, api>>
  /\ UNCHANGED wvars

\* every fanin of every gate of net is a node created before the gate
Acyclic(net) ==
  \A g \in 1..Len(net.nodes) : \A j \in 1..Len(net.nodes[g].fi) :
     net.nodes[g].fi[j].node < g

\* the network is edited after its construction: a fanin of the gate created
\* last is redirected, with its complement, to a node that is not older than
\* the gate (the only such node is the gate itself)
ReplaceInNode ==
  /\ cpc = "build" /\ src.pos = <<>> /\ Acyclic(src)
  /\ Len(src.nodes) > 0 /\ src.nodes[Len(src.nodes)].kind # "pi"
  /\ \E j \in 1..Len(src.nodes[Len(src.nodes)].fi) :
       src' = replace_in_node(src, Len(src.nodes), j,
                 Signal(Len(src.nodes), src.nodes[Len(src.nodes)].fi[j].c))
  /\ UNCHANGED <<variant, indices, dst, indices2, cpc, api>>
  /\ UNCHANGED wvars

\* encode( indices, src )
Encode ==
  /\ cpc = "build"
  /\ IF EncodeFatal(variant, src)
     THEN cpc' = "aborted" /\ UNCHANGED indices
     ELSE cpc' = "encoded" /\ indices' = encode(indices, src)
  /\ UNCHANGED <<variant, src, dst, indices2, api>>
  /\ UNCHANGED wvars

\* decode( dst, indices )
Decode ==
  /\ cpc \in {"encoded", "list"}
  /\ IF DecodeFatal(indices)
     THEN cpc' = "aborted" /\ UNCHANGED dst
     ELSE cpc' = "decoded" /\ dst' = decode(dst, indices)
  /\ UNCHANGED <<variant, src, indices, indices2, api>>
  /\ UNCHANGED wvars

\* encode( indices2, dst )
Reencode ==
  /\ cpc = "decoded"
  /\ IF EncodeFatal(variant, dst)
     THEN cpc' = "aborted" /\ UNCHANGED indices2
     ELSE cpc' = "reencoded" /\ indices2' = encode(indices2, dst)
  /\ UNCHANGED <<variant, src, indices, dst, api>>
  /\ UNCHANGED wvars

\* the window builder at rest while the codec runs
NoNetwork ==
  [size |-> 1, pis |-> {}, fanin |-> [n \in {0} |-> {}], root |-> {},
   cfanin |-> [n \in {0} |-> {}], po |-> [n \in {0} |-> 0]]

WNone ==
  /\ ntk = NoNetwork
  /\ cell_refs = init_cell_refs(ntk)
  /\ cell_parents = init_cell_parents(ntk)
  /\ nodes = {} /\ gates = {} /\ leaves = {} /\ roots = {}
  /\ pc = "none" /\ pivot = NoNode /\ calls = 0 /\ capped = FALSE
  /\ next = NoNode /\ mffc = <<>> /\ iters = 0
  /\ first = [pivot |-> NoNode, nodes |-> {}, gates |-> {}, leaves |-> {},
              roots |-> {}]

Init == WInit /\ CNone

Next ==
  \/ ComputeWindowStart
  \/ Grow
  \/ FindLeavesAndRoots

Spec == Init /\ [][Next]_vars

CodecInit == WNone /\ CInit

CodecNext ==
  \/ CreatePi
  \/ CreateGate
  \/ CreatePo
  \/ ReplaceInNode
  \/ Encode
  \/ Decode
  \/ Reencode

CodecSpec == CodecInit /\ [][CodecNext]_vars

(***************************************************************************)
(* A list built through its interface: constructed with an input count,    *)
(* then add_inputs, add_and, add_xor, add_maj and add_output in any order; *)
(* the list can be decoded, and the raw values of an abc list adopted by a *)
(* new abc list                                                            *)
(***************************************************************************)
\* the input counts the constructor is called with
ConstructPis == {0, 2, 255, 256}

\* the literals the calls are made with: the constant, the first input plain
\* and complemented, the entry added last; for an output also constant true
NewestLit(il) ==
  2 * (il_num_pis(il) + (IF il.kind = "abc" THEN il_num_gates(il) ELSE Len(api.gates)))
GateLits(il) == {0, 2, 3, NewestLit(il)}
OutputLits(il) == {0, 1, 2, NewestLit(il)}

LInit ==
  /\ variant \in Variants
  /\ \E n \in ConstructPis :
       /\ (variant = "abc" => n < 255)
       /\ indices = il_construct(variant, n)
       /\ api = NoCalls(n)
  /\ src = EmptyNetwork /\ dst = EmptyNetwork
  /\ indices2 = il_new(variant)
  /\ cpc = "list"

\* a call that fails its assertion changes nothing in the list
Failed(call) ==
  /\ cpc' = "fatal"
  /\ api' = [api EXCEPT !.fatal = call, !.ops = @ + 1]
  /\ UNCHANGED indices

AddInputs ==
  /\ cpc = "list" /\ api.ops < MaxListOps
  /\ \E n \in {1, 2} :
       IF ~add_inputs_pre(indices, n) THEN Failed(<<"add_inputs", n>>)
       ELSE /\ indices' = add_inputs(indices, n)
            /\ api' = [api EXCEPT !.pis = @ + n, !.ops = @ + 1,
                                  !.mixed = @ \/ api.outs # <<>>]
            /\ UNCHANGED cpc
  /\ UNCHANGED <<variant, src, dst, indices2>>
  /\ UNCHANGED wvars

AddAnd ==
  /\ cpc = "list" /\ api.ops < MaxListOps /\ variant \in {"abc", "xag"}
  /\ \E lit0, lit1 \in GateLits(indices) :
       IF ~add_gate_pre(indices) \/ (variant = "abc" /\ ~abc_add_and_pre(lit0, lit1))
       THEN Failed(<<"add_and", lit0, lit1>>)
       ELSE /\ indices' = add_gate2(indices, lit0, lit1)
            /\ api' = [api EXCEPT !.gates = Append(@, <<"and", lit0, lit1>>),
                                  !.ops = @ + 1, !.mixed = @ \/ api.outs # <<>>]
            /\ UNCHANGED cpc
  /\ UNCHANGED <<variant, src, dst, indices2>>
  /\ UNCHANGED wvars

AddXor ==
  /\ cpc = "list" /\ api.ops < MaxListOps /\ variant \in {"abc", "xag"}
  /\ \E lit0, lit1 \in GateLits(indices) :
       IF ~add_gate_pre(indices) \/ (variant = "abc" /\ ~abc_add_xor_pre(lit0, lit1))
       THEN Failed(<<"add_xor", lit0, lit1>>)
       ELSE /\ indices' = add_gate2(indices, lit0, lit1)
            /\ api' = [api EXCEPT !.gates = Append(@, <<"xor", lit0, lit1>>),
                                  !.ops = @ + 1, !.mixed = @ \/ api.outs # <<>>]
            /\ UNCHANGED cpc
  /\ UNCHANGED <<variant, src, dst, indices2>>
  /\ UNCHANGED wvars

AddMaj ==
  /\ cpc = "list" /\ api.ops < MaxListOps /\ variant = "mig"
  /\ \E lit0, lit1, lit2 \in GateLits(indices) :
       /\ lit0 <= lit1 /\ lit1 <= lit2
       /\ IF ~add_gate_pre(indices) THEN Failed(<<"add_maj", lit0, lit1, lit2>>)
          ELSE /\ indices' = add_maj(indices, lit0, lit1, lit2)
               /\ api' = [api EXCEPT !.gates = Append(@, <<"maj", lit0, lit1, lit2>>),
                                     !.ops = @ + 1,
                                     !.mixed = @ \/ api.outs # <<>>]
               /\ UNCHANGED cpc
  /\ UNCHANGED <<variant, src, dst, indices2>>
  /\ UNCHANGED wvars

AddOutput ==
  /\ cpc = "list" /\ api.ops < MaxListOps
  /\ \E lit \in OutputLits(indices) :
       IF ~add_output_pre(indices) THEN Failed(<<"add_output", lit>>)
       ELSE /\ indices' = add_output(indices, lit)
            /\ api' = [api EXCEPT !.outs = Append(@, lit), !.ops = @ + 1]
            /\ UNCHANGED cpc
  /\ UNCHANGED <<variant, src, dst, indices2>>
  /\ UNCHANGED wvars

\* abc_index_list( indices.raw() )
FromRaw ==
  /\ cpc = "list" /\ variant = "abc"
  /\ IF abc_from_raw_fatal(indices.values)
     THEN cpc' = "rejected" /\ UNCHANGED indices2
     ELSE cpc' = "adopted" /\ indices2' = abc_from_raw(indices.values)
  /\ UNCHANGED <<variant, src, indices, dst, api>>
  /\ UNCHANGED wvars

ListInit == WNone /\ LInit

ListNext ==
  \/ AddInputs
  \/ AddAnd
  \/ AddXor
  \/ AddMaj
  \/ AddOutput
  \/ FromRaw
  \/ Decode

ListSpec == ListInit /\ [][ListNext]_vars

(***************************************************************************)
(* Properties of the window builder                                        *)
(***************************************************************************)
Returned == pc = "idle" /\ calls > 0

\* the cell MFFC of a cell root n: n and every gate reached from n along
\* gate-fanins without passing through a cell-fanin of n, a constant or a
\* primary input
MFFC(net, n) == Cone(net.fanin, net.pis, net.cfanin[n], {n}, {})

NoDuplicates(s) == \A i, j \in 1..Len(s) : s[i] = s[j] => i = j

\* C1: whenever no call is in progress, cell_refs equals its value right
\* after construction.
C1_RefsRestored == pc = "idle" => cell_refs = init_cell_refs(ntk)

\* C2: after compute_window_for, n is in roots iff n is in nodes and is
\* referenced by a primary output or by a cell root outside nodes.
C2_RootsExact ==
  Returned =>
    roots = {n \in nodes : \/ ntk.po[n] > 0
                           \/ \E q \in ntk.root \ nodes : n \in ntk.cfanin[q]}

\* C3: the window never holds more than max_gates gates, during and after
\* compute_window_for.
C3_GatesBounded == Cardinality(gates) <= max_gates

C3_Witness ==
  Returned /\ capped /\ Cardinality(gates) = max_gates /\ next \notin nodes

\* C4: after compute_window_for, leaves is exactly the set of gate-fanins of
\* window gates that are not window gates.
C4_LeavesExact ==
  Returned =>
    /\ \A g \in gates : \A f \in ntk.fanin[g] : f \in gates \/ f \in leaves
    /\ leaves \cap gates = {}
    /\ \A l \in leaves : \E g \in gates : l \in ntk.fanin[g]

C4_Witness ==
  /\ Returned /\ calls = 2
  /\ first.leaves \ leaves # {}
  /\ leaves # {}

\* C5: every member of nodes is a cell root (and so neither a primary input
\* nor a constant), at every point of compute_window_for.
C5_NodesAreCellRoots ==
  \A n \in nodes : is_cell_root(ntk, n) /\ ~is_pi(ntk, n) /\ ~is_constant(ntk, n)

C5_Witness ==
  /\ pc = "grow" /\ next \in nodes
  /\ \E n \in nodes : \E m \in ntk.cfanin[n] : is_pi(ntk, m)
  /\ \E n \in nodes : next \in ntk.cfanin[n]

\* C6: gates is the union of the cell MFFCs of the members of nodes, and
\* every collect_mffc call returns, each gate once, the MFFC of its pivot
\* minus the gates already in the window.
C6_GatesAreMffcs == gates = UNION {MFFC(ntk, n) : n \in nodes}

C6_CollectStep ==
  /\ (pc = "idle" /\ pc' = "grow") =>
        NoDuplicates(mffc') /\ Range(mffc') = MFFC(ntk, pivot')
  /\ (pc = "grow" /\ next' # NoNode) =>
        NoDuplicates(mffc') /\ Range(mffc') = MFFC(ntk, next') \ gates

C6_Mffc == [](C6_GatesAreMffcs) /\ [][C6_CollectStep]_vars

C6_Witness ==
  /\ pc = "grow" /\ next \in nodes
  /\ Len(mffc) >= 1
  /\ Len(mffc) < Cardinality(MFFC(ntk, next))

\* C7: every iteration of the growth loop stops the loop or adds a new node
\* to nodes, so a call makes at most one iteration per cell root; on the
\* chain longer than max_gates it ends with non-empty leaves and roots.
C7_LoopStep ==
  pc = "grow" =>
    \/ pc' = "finish" /\ nodes' = nodes
    \/ /\ pc' = "grow" /\ nodes \subseteq nodes'
       /\ Cardinality(nodes') = Cardinality(nodes) + 1

C7_Bounded ==
  /\ iters <= Cardinality(ntk.root)
  /\ (Returned /\ Cardinality(ntk.root) > max_gates) =>
        leaves # {} /\ roots # {} /\ Cardinality(gates) <= max_gates

C7_Terminates == [](C7_Bounded) /\ [][C7_LoopStep]_vars

C7_Witness ==
  /\ Returned /\ Cardinality(ntk.root) > max_gates
  /\ capped /\ iters = max_gates
  /\ leaves # {} /\ roots # {}

\* C8: a call on an object that has already computed a window gives the same
\* window as the first call (on the fresh object) with the same pivot.
C8_SameWindow ==
  (Returned /\ calls >= 2 /\ pivot = first.pivot) => Window = first

\* the dead inputs of a window ns: cell-fanins of a node of ns that are not in
\* ns, are no primary inputs, and are referenced by no primary output and by
\* no cell root outside ns
DeadInputs(net, ns) ==
  {m \in UNION {net.cfanin[n] : n \in ns} :
     /\ m \notin ns /\ ~is_pi(net, m)
     /\ net.po[m] = 0
     /\ \A q \in net.root \ ns : m \notin net.cfanin[q]}

\* C19: whenever find_next_pivot is called while the window has a dead
\* input, the node it returns is a dead input, at every iteration of the
\* growth loop.
C19_DeadStep ==
  (pc = "grow" /\ DeadInputs(ntk, nodes) # {}) => next' \in DeadInputs(ntk, nodes)

C19_DeadInputFirst == [][C19_DeadStep]_vars

\* C20: no counter of cell_refs ever wraps around: every counter stays
\* between 0 and its value after construction.
C20_NoWrap ==
  \A n \in NtkNodes(ntk) :
     0 <= cell_refs[n] /\ cell_refs[n] <= init_cell_refs(ntk)[n]

(***************************************************************************)
(* Properties of the index-list codec                                      *)
(***************************************************************************)
\* C9: decode(encode(N)) has as many primary inputs and outputs as N, and
\* its i-th primary output computes the same Boolean function as the i-th
\* primary output of N.
C9_DecodeEncodeEquivalent ==
  cpc \in {"decoded", "reencoded"} =>
    /\ net_num_pis(dst) = net_num_pis(src)
    /\ net_num_pos(dst) = net_num_pos(src)
    /\ \A k \in 1..net_num_pos(src) : OutputFunction(dst, k) = OutputFunction(src, k)

\* C10: encoding the network decoded from a list L gives a list with the
\* same raw values as L, also for lists with more than one primary output.
C10_EncodeDecodeExact ==
  cpc = "reencoded" => indices2.values = indices.values

(***************************************************************************)
(* Properties of the list interface                                        *)
(***************************************************************************)
\* the list indices was built by calls that all succeeded
Built == cpc = "list"

\* the calls came in the order of the layout: no input and no gate was added
\* after an output
InOrder == ~api.mixed

\* the inputs asked for fit the header field of a packed list
InputsFit == variant = "abc" \/ api.pis <= 255

\* C11: foreach_po calls fn once per primary output, with the literals given
\* to add_output in the order they were added, for any number of outputs
\* (stated for lists whose inputs fit the header and whose outputs were
\* added last).
C11_ForeachPo ==
  (Built /\ InputsFit /\ InOrder) =>
    /\ Len(foreach_po(indices)) = Len(api.outs)
    /\ foreach_po(indices) = api.outs

\* the size law of the variant for np inputs, ng gates and no outputs
SizeLaw(v, np, ng, no) ==
  CASE v = "abc" -> 2 * (1 + np + ng + no)
    [] v = "xag" -> 1 + (2 * ng) + no
    [] v = "mig" -> 1 + (3 * ng) + no

\* C12: after the construction and any sequence of successful additions,
\* num_pis, num_gates and num_pos are the inputs, gates and outputs added,
\* and size obeys the size law of the variant.
C12_SizeLaws ==
  Built =>
    /\ il_num_pis(indices) = api.pis
    /\ il_num_gates(indices) = Len(api.gates)
    /\ il_num_pos(indices) = Len(api.outs)
    /\ il_size(indices) = SizeLaw(variant, api.pis, Len(api.gates), Len(api.outs))

\* C13: a packed list (xag, mig) never holds more than 255 inputs, 255
\* outputs or 65535 gates, whatever the construction and the additions, so
\* every header field is the count it stands for and none carries into its
\* neighbour.
C13_HeaderFits ==
  (Built /\ variant # "abc") =>
    /\ api.pis <= 255 /\ Len(api.outs) <= 255 /\ Len(api.gates) <= 65535
    /\ Header(indices) =
         (Len(api.gates) * 65536) + (Len(api.outs) * 256) + api.pis

\* C14: in the abc and in the xag list every gate stored by add_and has
\* lit0 < lit1 and every gate stored by add_xor has lit0 > lit1 (a call with
\* the literals in another order is fatal and stores nothing).
C14_GateOrder ==
  variant \in {"abc", "xag"} =>
    \A k \in 1..Len(api.gates) :
       /\ api.gates[k][1] = "and" => api.gates[k][2] < api.gates[k][3]
       /\ api.gates[k][1] = "xor" => api.gates[k][2] > api.gates[k][3]

\* the calls were the constructor, then gate additions, then add_output calls
GatesThenOutputs ==
  InOrder /\ api.ops = Len(api.gates) + Len(api.outs) /\ api.fatal = <<>>

\* C16: the abc list constructed from the raw values of an abc list built by
\* the constructor, gate additions and then add_output calls (of any
\* literal) is constructed without failure and has the same num_pis,
\* num_gates and num_pos.
C16_FromRaw ==
  (variant = "abc" /\ GatesThenOutputs /\ cpc \in {"adopted", "rejected"}) =>
    /\ cpc = "adopted"
    /\ il_num_pis(indices2) = il_num_pis(indices)
    /\ il_num_gates(indices2) = il_num_gates(indices)
    /\ il_num_pos(indices2) = il_num_pos(indices)

\* the signal of the table of insert a literal names, the table being the
\* constant, the inputs and the gates in creation order in a network that was
\* empty before decode
TableSignal(lit) == Signal(lit \div 2, lit % 2)

\* C15: for abc and xag lists, insert creates an AND gate for every gate entry
\* with lit0 < lit1 and an XOR gate for every gate entry with lit0 > lit1, with
\* the operands the table signals at index lit >> 1, complemented exactly when
\* the low bit of the literal is 1; an entry with lit0 = lit1 is never turned
\* into a gate.
C15_InsertDiscriminator ==
  (cpc = "decoded" /\ variant \in {"abc", "xag"}) =>
    LET es == foreach_entry(indices)
        n == il_num_pis(indices)
    IN /\ net_num_gates(dst) = Len(es)
       /\ \A k \in 1..Len(es) :
            /\ es[k][1] # es[k][2]
            /\ es[k][1] < es[k][2] => dst.nodes[n + k].kind = "and"
            /\ es[k][1] > es[k][2] => dst.nodes[n + k].kind = "xor"
            /\ dst.nodes[n + k].fi = <<TableSignal(es[k][1]), TableSignal(es[k][2])>>

\* a decoded list with an AND entry and an XOR entry, a complemented literal
\* and a gate whose operand is the gate before it
C15_Witness ==
  /\ cpc = "decoded" /\ variant \in {"abc", "xag"}
  /\ LET es == foreach_entry(indices)
         n == il_num_pis(indices)
     IN /\ Len(es) = 2
        /\ \E k \in 1..2 : es[k][1] < es[k][2]
        /\ \E k \in 1..2 : es[k][1] > es[k][2]
        /\ \E k, j \in 1..2 : es[k][j] % 2 = 1
        /\ \E j \in 1..2 : es[2][j] \div 2 = n + 1
        /\ net_num_gates(dst) = 2

C17_EncodeChecks ==
  cpc = "encoded" =>
    /\ PisNormalized(src)
    /\ \A k \in 1..net_num_gates(src) : GateNormalized(src, k)
    /\ Acyclic(src)
    /\ \A k \in 1..Len(foreach_entry(indices)) :
         \A j \in 1..Len(foreach_entry(indices)[k]) :
            foreach_entry(indices)[k][j] \div 2 < il_num_pis(indices) + k

====
